---------------------------- MODULE Spec2Model ----------------------------
(***************************************************************************)
(* Model of the local-network discovery engine of LegadoTTSTool:          *)
(*   src/core/network_scanner.py  (NetworkScanner)                        *)
(*   src/utils/network_info.py    (SegmentClassifier, SegmentScanEngine,  *)
(*                                 NetworkInfo)                           *)
(*                                                                         *)
(* An IPv4 address is the tuple of its four octets, a segment the tuple   *)
(* of its first three.  Where the code works on the text of an address    *)
(* (startswith, endswith) the model formats the tuple to its characters   *)
(* and works on those.  Python's None is modelled by NoPort = 0 (both are *)
(* falsy in the code's `if host.get('web_port')` tests).                  *)
(***************************************************************************)
EXTENDS Integers, Sequences, FiniteSets, TLC

(***************************************************************************)
(* Bounds of the model                                                     *)
(***************************************************************************)
MaxProviders == 1
MaxAdapters == 2

(***************************************************************************)
(* Program constants                                                       *)
(***************************************************************************)
WebPort == 7860
SynthPort == 9880
DefaultMaxThreads == 150
MaxExtraSegments == 2
NoPort == 0

Loopback == <<127, 0, 0, 1>>

(***************************************************************************)
(* Generic helpers                                                         *)
(***************************************************************************)
Range(s) == {s[i] : i \in 1..Len(s)}

IsPrefix(s, t) == Len(s) <= Len(t) /\ SubSeq(t, 1, Len(s)) = s

IsSuffix(s, t) == Len(s) <= Len(t) /\ SubSeq(t, Len(t) - Len(s) + 1, Len(t)) = s

\* All orderings of a finite set, as sequences
Orderings(S) ==
    {f \in [1..Cardinality(S) -> S] : \A i, j \in 1..Cardinality(S) : f[i] = f[j] => i = j}

\* All sequences of length at most n over S
SeqsUpTo(S, n) == UNION {[1..k -> S] : k \in 0..n}

RECURSIVE Flatten(_)
Flatten(ss) == IF ss = <<>> THEN <<>> ELSE Head(ss) \o Flatten(Tail(ss))

(***************************************************************************)
(* Text of addresses: f"{a}.{b}.{c}.{d}" as a sequence of characters       *)
(***************************************************************************)
DigitChar == <<"0", "1", "2", "3", "4", "5", "6", "7", "8", "9">>

Decimal(n) ==
    IF n < 10 THEN <<DigitChar[n + 1]>>
    ELSE IF n < 100 THEN <<DigitChar[(n \div 10) + 1], DigitChar[(n % 10) + 1]>>
    ELSE <<DigitChar[(n \div 100) + 1], DigitChar[((n \div 10) % 10) + 1], DigitChar[(n % 10) + 1]>>

SegmentText(seg) == Decimal(seg[1]) \o <<".">> \o Decimal(seg[2]) \o <<".">> \o Decimal(seg[3])

IpText(ip) == SegmentText(ip) \o <<".">> \o Decimal(ip[4])

\* f"{segment}.{i}"
IpOf(seg, i) == <<seg[1], seg[2], seg[3], i>>

\* '.'.join(ip.split('.')[:3])
SegmentOf(ip) == <<ip[1], ip[2], ip[3]>>

\* ip.startswith(segment)
StartsWith(ip, seg) == IsPrefix(SegmentText(seg), IpText(ip))

(***************************************************************************)
(* SEGMENT_CATEGORIES: CIDR ranges as [net |-> octets, prefix |-> bits]    *)
(***************************************************************************)
Cidr(a, b, c, d, p) == [net |-> <<a, b, c, d>>, prefix |-> p]

HighPrioritySegments ==
    <<Cidr(192, 168, 0, 0, 16), Cidr(10, 0, 0, 0, 8), Cidr(172, 16, 0, 0, 12)>>

MediumPrioritySegments ==
    <<Cidr(100, 64, 0, 0, 10), Cidr(169, 254, 0, 0, 16)>>

LowPrioritySegments ==
    [i \in 1..15 |-> Cidr(172, 16 + i, 0, 0, 16)]

SpecialPrioritySegments ==
    <<Cidr(127, 0, 0, 0, 8), Cidr(224, 0, 0, 0, 4), Cidr(255, 255, 255, 255, 32), Cidr(0, 0, 0, 0, 8)>>

RECURSIVE Pow2(_)
Pow2(n) == IF n = 0 THEN 1 ELSE 2 * Pow2(n - 1)

\* The first 24 bits of an address as a number
Net24(ip) == (ip[1] * 256 + ip[2]) * 256 + ip[3]

\* IPv4Network(f"{segment}.0/24").subnet_of(IPv4Network(range, strict=False)):
\* the /24 lies inside the range iff the range's prefix is at most 24 bits
\* long and both agree on those bits.
SubnetOf(seg, range) ==
    /\ range.prefix <= 24
    /\ Net24(seg) \div Pow2(24 - range.prefix) = Net24(range.net) \div Pow2(24 - range.prefix)

\* A segment string is the sequence of its dot-separated parts; a part that is
\* not a decimal number is NonNumeric
NonNumeric == -1

\* IPv4Network(f"{segment}.0/24") accepts the text: three octets in 0..255
IsWellFormed(seg) == Len(seg) = 3 /\ \A i \in 1..3 : seg[i] \in 0..255

\* try: ... except Exception: return False (a text IPv4Network rejects raises)
_segment_in_ranges(seg, ranges) ==
    IsWellFormed(seg) /\ \E i \in 1..Len(ranges) : SubnetOf(seg, ranges[i])

_is_special_segment(seg) == _segment_in_ranges(seg, SpecialPrioritySegments)

_is_high_priority_segment(seg) == _segment_in_ranges(seg, HighPrioritySegments)

_is_medium_priority_segment(seg) == _segment_in_ranges(seg, MediumPrioritySegments)

\* TUNNELING_PATTERNS, their final $ removed, matched (re.match) against
\* f"{segment}.1": the first parts of the text are as the pattern says, and each
\* \d+ of the pattern meets a part that is a number
_is_tunneling_segment(seg) ==
    LET text == seg \o <<1>>
        Digits(part) == part >= 0
    IN  /\ Len(text) >= 4
        /\ Digits(text[4])
        /\ \/ text[1] = 192 /\ text[2] = 168 /\ text[3] \in {99, 100}
           \/ text[1] = 10 /\ text[2] = 0 /\ text[3] \in {99, 100}
           \/ text[1] = 192 /\ text[2] = 168 /\ text[3] \in {200, 201}
           \/ text[1] = 172 /\ text[2] = 16 /\ text[3] \in {200, 201}
           \/ text[1] = 192 /\ text[2] = 168 /\ text[3] \in 100..299
           \/ text[1] = 10 /\ text[2] \in 100..299 /\ Digits(text[3])

Classification(cat, prio, mode, why) ==
    [category |-> cat, priority |-> prio, scan_mode |-> mode, reason |-> why]

\* Mutant: the tunneling heuristic is tried before the High ranges
classify_segment_TunnelingFirst(seg) ==
    IF _is_special_segment(seg) THEN Classification("SPECIAL_PRIORITY", 0, "IGNORE", "special")
    ELSE IF _is_tunneling_segment(seg) THEN Classification("HIGH_PRIORITY", 2, "FULL", "tunnel")
    ELSE IF _is_high_priority_segment(seg) THEN Classification("HIGH_PRIORITY", 3, "FULL", "lan")
    ELSE IF _is_medium_priority_segment(seg) THEN Classification("MEDIUM_PRIORITY", 1, "FAST", "maybe_tunnel")
    ELSE Classification("LOW_PRIORITY", 0, "SKIP", "virtual")

\* Reasons: "lan" = real LAN segment, "tunnel" = tunneling segment,
\* "maybe_tunnel" = possible tunneling segment, "special", "virtual".
classify_segment(seg) ==
    IF _is_special_segment(seg) THEN Classification("SPECIAL_PRIORITY", 0, "IGNORE", "special")
    ELSE IF _is_high_priority_segment(seg) THEN Classification("HIGH_PRIORITY", 3, "FULL", "lan")
    ELSE IF _is_tunneling_segment(seg) THEN Classification("HIGH_PRIORITY", 2, "FULL", "tunnel")
    ELSE IF _is_medium_priority_segment(seg) THEN Classification("MEDIUM_PRIORITY", 1, "FAST", "maybe_tunnel")
    ELSE Classification("LOW_PRIORITY", 0, "SKIP", "virtual")


(***************************************************************************)
(* State                                                                   *)
(*                                                                         *)
(* Environment (fixed during a behaviour):                                 *)
(*   providers     the provider configuration ProviderManager loads        *)
(*   adapters      the adapters the OS query parses, each [ipv4 |-> list]  *)
(*   os_raises     whether the OS adapter query raises                     *)
(*   segment_order the iteration order of the segment set (list(set))      *)
(*   host_status   what each host of the network answers                   *)
(* NetworkScanner fields: max_threads.                                     *)
(* Locals of one scan_index_tts_servers call: pc, fast_mode, known_servers,*)
(* servers, ip_list, live_hosts, returned.                                 *)
(* Observations of the call: checked_seeds (the seeds whose verification   *)
(* was run), seed_servers (the verified seeds),                            *)
(* scanned_servers (the verified scanned hosts), enumerated (adapters were *)
(* queried by the scan phase), scan_probes (host tasks the scan phase has   *)
(* submitted), raised (the call ended in its except clause).  The frame's  *)
(* locals are dropped when the call returns.                               *)
(***************************************************************************)
VARIABLES providers, adapters, os_raises, segment_order, host_status,
          max_threads, pc, fast_mode, known_servers, servers, ip_list,
          live_hosts, returned, checked_seeds, seed_servers, scanned_servers,
          enumerated, scan_probes, raised,
          seg, cls,
          plan_input, strategy,
          client_installed, tasks_done, connects, missed_probes, verify_next,
          handshakes, synth_gets, escaped, unjoined,
          sys_stdout, old_stdout, gradio_pc, to_verify, overlapped

env == <<providers, adapters, os_raises, segment_order, host_status>>
locals == <<fast_mode, known_servers, servers, ip_list, live_hosts, returned>>
observed == <<checked_seeds, seed_servers, scanned_servers, enumerated, scan_probes, raised>>
classifier_vars == <<seg, cls>>
planner_vars == <<plan_input, strategy>>
probe_vars == <<client_installed, tasks_done, connects, missed_probes, verify_next,
                handshakes, synth_gets, escaped, unjoined>>
stdout_vars == <<sys_stdout, old_stdout, gradio_pc, to_verify, overlapped>>
component_vars == <<classifier_vars, planner_vars, probe_vars, stdout_vars>>
vars == <<env, max_threads, pc, locals, observed, component_vars>>

(***************************************************************************)
(* SegmentScanEngine.get_scan_strategy                                     *)
(***************************************************************************)
ClassifiedSegments(segments) ==
    [i \in 1..Len(segments) |-> [segment |-> segments[i], classification |-> classify_segment(segments[i])]]

\* Mutant: the classified segments are left in their input order
SortByPriority_InputOrder(items) == items

\* list.sort(key=priority, reverse=True) is stable: items of equal priority
\* keep their order.
SortByPriority(items) ==
    Flatten([k \in 1..4 |-> SelectSeq(items, LAMBDA x : x.classification.priority = 4 - k)])

FullRange == <<<<1, 255>>>>
FastRange == <<<<1, 10>>, <<200, 210>>>>

ScanEntry(item) ==
    [segment |-> item.segment,
     scan_range |-> IF item.classification.scan_mode = "FULL" THEN FullRange ELSE FastRange,
     mode |-> item.classification.scan_mode,
     reason |-> item.classification.reason]

SkipEntry(item) == [segment |-> item.segment, reason |-> item.classification.reason]

RECURSIVE SumSeq(_)
SumSeq(s) == IF s = <<>> THEN 0 ELSE Head(s) + SumSeq(Tail(s))

EmptyStrategy ==
    [segments_to_scan |-> <<>>, segments_to_skip |-> <<>>, scan_order |-> <<>>,
     performance_estimate |-> [total_ips |-> 0, time_saved |-> 0]]

\* Mutant: a segment to skip is emitted as a scan target as well
get_scan_strategy_EmitsSkipped(segment_list) ==
    LET sorted == SortByPriority(ClassifiedSegments(segment_list))
        toScan == SelectSeq(sorted, LAMBDA x : x.classification.scan_mode \in {"FULL", "FAST", "SKIP"})
        toSkip == SelectSeq(sorted, LAMBDA x : x.classification.scan_mode = "SKIP")
    IN  [segments_to_scan |-> [i \in 1..Len(toScan) |-> ScanEntry(toScan[i])],
         segments_to_skip |-> [i \in 1..Len(toSkip) |-> SkipEntry(toSkip[i])],
         scan_order |-> [i \in 1..Len(toScan) |-> toScan[i].segment],
         performance_estimate |->
            [total_ips |-> SumSeq([i \in 1..Len(toScan) |->
                              IF toScan[i].classification.scan_mode = "FULL" THEN 254 ELSE 21]),
             time_saved |-> 254 * Len(toSkip)]]

get_scan_strategy(segments) ==
    LET sorted == SortByPriority(ClassifiedSegments(segments))
        toScan == SelectSeq(sorted, LAMBDA x : x.classification.scan_mode \in {"FULL", "FAST"})
        toSkip == SelectSeq(sorted, LAMBDA x : x.classification.scan_mode = "SKIP")
    IN  [segments_to_scan |-> [i \in 1..Len(toScan) |-> ScanEntry(toScan[i])],
         segments_to_skip |-> [i \in 1..Len(toSkip) |-> SkipEntry(toSkip[i])],
         scan_order |-> [i \in 1..Len(toScan) |-> toScan[i].segment],
         performance_estimate |->
            [total_ips |-> SumSeq([i \in 1..Len(toScan) |->
                              IF toScan[i].classification.scan_mode = "FULL" THEN 254 ELSE 21]),
             time_saved |-> 254 * Len(toSkip)]]

(***************************************************************************)
(* NetworkInfo                                                             *)
(***************************************************************************)
\* [] when the OS query raises (the except clause) or parses no adapter
get_network_adapters == IF os_raises THEN <<>> ELSE adapters

AdapterIps(ads) == Flatten([i \in 1..Len(ads) |-> ads[i].ipv4])

\* list(set(segment of every adapter address)): the set in its iteration order
get_network_segments ==
    LET segs == {SegmentOf(ip) : ip \in Range(AdapterIps(get_network_adapters))}
    IN  SelectSeq(segment_order, LAMBDA s : s \in segs)

get_filtered_network_segments ==
    IF get_network_segments = <<>> THEN EmptyStrategy
    ELSE get_scan_strategy(get_network_segments)

\* None is the empty tuple
NoSegment == <<>>

get_primary_network_segment ==
    LET segments_to_scan == get_filtered_network_segments.segments_to_scan
        high == SelectSeq(segments_to_scan, LAMBDA s : s.mode = "FULL" /\ s.reason = "lan")
        tunneling == SelectSeq(segments_to_scan, LAMBDA s : s.mode = "FULL" /\ s.reason = "tunnel")
    IN  IF segments_to_scan = <<>> THEN NoSegment
        ELSE IF high # <<>> THEN high[1].segment
        ELSE IF tunneling # <<>> THEN tunneling[1].segment
        ELSE segments_to_scan[1].segment

(***************************************************************************)
(* NetworkScanner: building the scan list                                  *)
(***************************************************************************)
_scan_segment_with_strategy(segment) ==
    LET local == SelectSeq(AdapterIps(get_network_adapters), LAMBDA ip : StartsWith(ip, segment))
        all == [i \in 1..255 |-> IpOf(segment, i)]
    IN  local \o SelectSeq(all, LAMBDA ip : ip \notin Range(local))

\* Mutant: no default address
_get_default_ips_Empty == <<>>

_get_default_ips == <<Loopback>>

CriticalIps(segment) ==
    [i \in 1..10 |-> IpOf(segment, i)] \o [i \in 1..11 |-> IpOf(segment, 199 + i)]

_get_scan_ips ==
    LET primary_segment == get_primary_network_segment
        other_segments == SelectSeq(get_network_segments, LAMBDA s : s # primary_segment)
        extra == SubSeq(other_segments, 1,
                        IF Len(other_segments) < MaxExtraSegments
                        THEN Len(other_segments) ELSE MaxExtraSegments)
    IN  IF primary_segment # NoSegment
        THEN _scan_segment_with_strategy(primary_segment)
             \o Flatten([i \in 1..Len(extra) |-> CriticalIps(extra[i])])
        ELSE _get_default_ips

(***************************************************************************)
(* The network: what a host answers                                        *)
(*   "down"         both ports refuse the connection                       *)
(*   "timeout"      the host drops the packets: the connect times out      *)
(*   "unreachable"  no route to the host: the socket layer raises OSError  *)
(*   "web"          7860 open, /change_choices returns a non-empty list    *)
(*   "webbad"       7860 open, another service: the response is malformed  *)
(*                  and the handshake raises                               *)
(*   "webempty"     7860 open, /change_choices returns an empty list       *)
(*   "silent"       7860 accepts the connection and never answers          *)
(*   "synth"        9880 open, GET / returns 200                           *)
(*   "synthbad"     9880 open, GET / returns another status                *)
(*   "both"         7860 and 9880 open, both as "web" and "synth"          *)
(*   "webbad_synth" 7860 open as "webbad", 9880 open as "synth"            *)
(* client_installed: gradio_client could be imported (Client is defined).  *)
(***************************************************************************)
StatusOf(ip) == IF ip \in DOMAIN host_status THEN host_status[ip] ELSE "down"

WebOpenStatuses == {"web", "webbad", "webempty", "silent", "both", "webbad_synth"}
SynthOpenStatuses == {"synth", "synthbad", "both", "webbad_synth"}

\* sock.connect_ex((ip, port)): "zero", "errno" (an error code) or "raises"
ConnectEx(ip, port) ==
    LET status == StatusOf(ip)
    IN  IF \/ port = WebPort /\ status \in WebOpenStatuses
           \/ port = SynthPort /\ status \in SynthOpenStatuses
        THEN "zero"
        ELSE IF status = "unreachable" THEN "raises" ELSE "errno"

\* Client(url).predict(api_name="/change_choices") when it returns: "list" (a
\* non-empty list), "empty" or "raises" (no Client, refused, malformed, timed out)
GradioHandshake(ip, port) ==
    IF ~client_installed \/ port # WebPort THEN "raises"
    ELSE IF StatusOf(ip) \in {"web", "both"} THEN "list"
    ELSE IF StatusOf(ip) = "webempty" THEN "empty"
    ELSE "raises"

\* requests.get(url, timeout=self.timeout): "200", "other" (another status) or "raises"
SynthGet(ip, port) ==
    IF port = SynthPort /\ StatusOf(ip) \in {"synth", "both", "webbad_synth"} THEN "200"
    ELSE IF port = SynthPort /\ StatusOf(ip) = "synthbad" THEN "other"
    ELSE "raises"

\* Mutant: the exception leaves the function
ExceptReturnFalse_Propagates(outcome) == outcome

\* try: ... except Exception: return False
\* An outcome is "True", "False" or "raises".
ExceptReturnFalse(outcome) == IF outcome = "raises" THEN "False" ELSE outcome

IsPortOpenResult(ip, port) ==
    LET result == ConnectEx(ip, port)
    IN  ExceptReturnFalse(IF result = "raises" THEN "raises"
                          ELSE IF result = "zero" THEN "True" ELSE "False")

\* sock.connect_ex((ip, port)) == 0; any exception is False
_is_port_open(ip, port) == IsPortOpenResult(ip, port) = "True"

VerifyGradioResult(ip, port) ==
    LET result == GradioHandshake(ip, port)
    IN  ExceptReturnFalse(IF result = "raises" THEN "raises"
                          ELSE IF result = "list" THEN "True" ELSE "False")

\* Client(...).predict("/change_choices") is a non-empty list; any exception is False
_verify_gradio_api(ip, port) == VerifyGradioResult(ip, port) = "True"

VerifySynthResult(ip, port) ==
    LET response == SynthGet(ip, port)
    IN  ExceptReturnFalse(IF response = "raises" THEN "raises"
                          ELSE IF response = "200" THEN "True" ELSE "False")

\* requests.get(...).status_code == 200; any exception is False
_verify_synth_api(ip, port) == VerifySynthResult(ip, port) = "True"

\* if host.get('web_port'): the handshake is made
HandshakeIssued(host) == host.web_port # NoPort

\* Mutant: the GET is made only for a host without web port
SynthGetIssued_OnlyWithoutWebPort(host) == host.synth_port # NoPort /\ host.web_port = NoPort

\* if host.get('synth_port'), reached unless the handshake returned True
SynthGetIssued(host) ==
    /\ host.synth_port # NoPort
    /\ ~(HandshakeIssued(host) /\ VerifyGradioResult(host.address, host.web_port) = "True")

VerifyServerResult(host) ==
    ExceptReturnFalse(
        IF HandshakeIssued(host) /\ VerifyGradioResult(host.address, host.web_port) # "False"
        THEN VerifyGradioResult(host.address, host.web_port)
        ELSE IF SynthGetIssued(host)
             THEN VerifySynthResult(host.address, host.synth_port)
             ELSE "False")

\* Mutant: every host is taken for a server
_verify_index_tts_server_AcceptsAll(host) == TRUE

_verify_index_tts_server(host) == VerifyServerResult(host) = "True"

\* The handshake is made without a timeout: against a peer that accepts the
\* connection and never answers it may wait for ever
HandshakeMayBlock(host) ==
    HandshakeIssued(host) /\ client_installed /\ StatusOf(host.address) = "silent"

_verify_servers(hosts) == SelectSeq(hosts, _verify_index_tts_server)

\* Whether verifying the hosts can end: FALSE = every call returns,
\* TRUE = a handshake waits for ever
MayBlock(hosts) ==
    IF \E i \in 1..Len(hosts) : HandshakeMayBlock(hosts[i]) THEN BOOLEAN ELSE {FALSE}

(***************************************************************************)
(* NetworkScanner._get_known_servers                                       *)
(***************************************************************************)
\* An empty server_address is the empty tuple
NoAddress == <<>>

Server(addr, web, synth) == [address |-> addr, web_port |-> web, synth_port |-> synth]

IsSeed(provider) == provider.enabled /\ provider.server_address # NoAddress

\* Mutant: the local address is not added to the configured servers
_get_known_servers_ConfiguredOnly ==
    LET configured == SelectSeq(providers, IsSeed)
    IN  [i \in 1..Len(configured) |->
            Server(configured[i].server_address, configured[i].web_port, configured[i].synth_port)]

_get_known_servers ==
    LET configured == SelectSeq(providers, IsSeed)
    IN  [i \in 1..Len(configured) |->
            Server(configured[i].server_address, configured[i].web_port, configured[i].synth_port)]
        \o <<Server(Loopback, WebPort, SynthPort)>>

(***************************************************************************)
(* NetworkScanner._check_host_ports / _scan_ports                          *)
(***************************************************************************)
\* Mutant: no address is skipped
IsNetworkOrBroadcast_Never(ip) == FALSE

\* ip.endswith('.0') or ip.endswith('.255')
\* (the text of an address ends with "." and its last octet, which is as far
\* back as either suffix reaches)
IsNetworkOrBroadcast(ip) ==
    LET tail == <<".">> \o Decimal(ip[4])
    IN  \/ IsSuffix(<<".", "0">>, tail)
        \/ IsSuffix(<<".", "2", "5", "5">>, tail)

\* None is the record without address
NoHost == Server(NoAddress, NoPort, NoPort)

\* The record the host task returns when the sub-probes of the ports in `late`
\* have not finished by the time their join(timeout + 0.5) gives up: the task
\* reads the record without their marks
CheckHostPortsJoined(ip, late) ==
    LET result == Server(ip,
                         IF _is_port_open(ip, WebPort) /\ WebPort \notin late THEN WebPort ELSE NoPort,
                         IF _is_port_open(ip, SynthPort) /\ SynthPort \notin late THEN SynthPort ELSE NoPort)
    IN  \* None for a network or broadcast address and for a host with no open port
        IF (result.web_port = NoPort /\ result.synth_port = NoPort) \/ IsNetworkOrBroadcast(ip)
        THEN NoHost
        ELSE result

\* Mutant: a host with one open port is recorded with both ports
_check_host_ports_MarksBothPorts(ip) ==
    IF CheckHostPortsJoined(ip, {}) = NoHost THEN NoHost ELSE Server(ip, WebPort, SynthPort)

\* Both sub-probes finish before their joins time out
_check_host_ports(ip) == CheckHostPortsJoined(ip, {})

\* The results of the host tasks in submission order, None dropped
LiveInSubmissionOrder(ips) ==
    SelectSeq([i \in 1..Len(ips) |-> _check_host_ports(ips[i])], LAMBDA r : r # NoHost)

\* ThreadPoolExecutor(max_workers) raises ValueError unless max_workers > 0
PoolCreationRaises(workers) == workers <= 0

(***************************************************************************)
(* NetworkScanner.scan_index_tts_servers                                   *)
(***************************************************************************)
\* Mutant: the scan is skipped only from 3 servers on
SkipNetworkScan_From3(fast, found) == fast /\ Len(found) >= 3

\* Mutant: the scan is skipped as soon as one server was found
SkipNetworkScan_From1(fast, found) == fast /\ Len(found) >= 1

\* fast_mode and len(servers) >= 2
SkipNetworkScan(fast, found) == fast /\ Len(found) >= 2

\* The de-duplication loop: keep a server unless its address was seen
RECURSIVE UniqueFrom(_, _)
UniqueFrom(list, seen_addresses) ==
    IF list = <<>> THEN <<>>
    ELSE IF Head(list).address \in seen_addresses
         THEN UniqueFrom(Tail(list), seen_addresses)
         ELSE <<Head(list)>> \o UniqueFrom(Tail(list), seen_addresses \cup {Head(list).address})

\* Mutant: the servers are returned as collected
UniqueServers_AsCollected(list) == list

UniqueServers(list) == UniqueFrom(list, {})

(***************************************************************************)
(* Inputs                                                                  *)
(***************************************************************************)
HostA == <<192, 168, 1, 50>>
HostB == <<192, 168, 10, 5>>
HostUniverse == {Loopback, HostA, HostB}
StatusChoices == {"down", "web", "webbad", "synth"}

Provider(en, addr) ==
    [enabled |-> en, server_address |-> addr, web_port |-> WebPort, synth_port |-> SynthPort]

ProviderChoices == {Provider(TRUE, Loopback), Provider(TRUE, HostA), Provider(FALSE, HostB)}

LocalIps == <<<<192, 168, 1, 5>>, HostB, <<100, 64, 1, 3>>, <<8, 8, 8, 8>>>>

MaxThreadsChoices == {0}

\* One adapter per chosen local address, in the order of LocalIps
AdapterLists ==
    {LET ips == SelectSeq(LocalIps, LAMBDA ip : ip \in chosen)
     IN  [i \in 1..Len(ips) |-> [ipv4 |-> <<ips[i]>>]] :
        chosen \in {c \in SUBSET Range(LocalIps) : Cardinality(c) <= MaxAdapters}}

NoClassification == Classification("NONE", 0, "NONE", "none")

\* No strategy computed yet
NoStrategy == [planned |-> FALSE]

ClassifierAtRest == seg = <<0, 0, 0>> /\ cls = NoClassification

PlannerAtRest == plan_input = <<>> /\ strategy = NoStrategy

\* The host scanner and the verifier have observed nothing; gradio_client is there
ProbeAtRest ==
    /\ client_installed = TRUE
    /\ tasks_done = {}
    /\ connects = {}
    /\ missed_probes = {}
    /\ verify_next = 0
    /\ handshakes = {}
    /\ synth_gets = {}
    /\ escaped = FALSE
    /\ unjoined = {}

\* The process as started: sys.stdout is the console, no call is verifying
MaxCalls == 2

Calls == 1..MaxCalls

Console == "console"

NoStream == "none"

StdoutAtRest ==
    /\ sys_stdout = Console
    /\ old_stdout = [c \in Calls |-> NoStream]
    /\ gradio_pc = [c \in Calls |-> "Done"]
    /\ to_verify = [c \in Calls |-> 0]
    /\ overlapped = FALSE

\* A NetworkScanner as constructed, no call made
CallAtRest ==
    /\ max_threads = DefaultMaxThreads
    /\ pc = "Idle"
    /\ fast_mode = TRUE
    /\ known_servers = <<>>
    /\ servers = <<>>
    /\ ip_list = <<>>
    /\ live_hosts = <<>>
    /\ returned = <<>>
    /\ checked_seeds = <<>>
    /\ seed_servers = <<>>
    /\ scanned_servers = <<>>
    /\ enumerated = FALSE
    /\ scan_probes = 0
    /\ raised = FALSE

\* No discovery call is running and nothing is configured
DiscoveryAtRest ==
    /\ providers = <<>>
    /\ adapters = <<>>
    /\ os_raises = FALSE
    /\ segment_order = <<>>
    /\ host_status = [h \in HostUniverse |-> "down"]
    /\ CallAtRest

Init ==
    /\ providers \in SeqsUpTo(ProviderChoices, MaxProviders)
    /\ adapters \in AdapterLists
    /\ os_raises \in BOOLEAN
    /\ os_raises => adapters = <<>>
    /\ segment_order \in Orderings({SegmentOf(ip) : ip \in Range(AdapterIps(adapters))})
    /\ host_status \in [HostUniverse -> StatusChoices]
    /\ host_status[Loopback] \in {"down", "web"}
    /\ host_status[HostB] \in {"down", "web"}
    /\ CallAtRest
    /\ ClassifierAtRest
    /\ PlannerAtRest
    /\ ProbeAtRest
    /\ StdoutAtRest

(***************************************************************************)
(* Actions                                                                 *)
(***************************************************************************)
\* set_scan_config(max_threads=n)
SetScanConfig(n) ==
    /\ pc = "Idle"
    /\ max_threads' = n
    /\ UNCHANGED <<env, pc, locals, observed, component_vars>>

\* scan_index_tts_servers(fast_mode=fm) is entered: servers = []
Start(fm) ==
    /\ pc = "Idle"
    /\ pc' = "SeedCheck"
    /\ fast_mode' = fm
    /\ servers' = <<>>
    /\ UNCHANGED <<env, max_threads, known_servers, ip_list, live_hosts, returned,
                   observed, component_vars>>

\* known_servers = self._get_known_servers(); servers.extend(self._verify_servers(...));
\* then the test `fast_mode and len(servers) >= 2`
\* A handshake that never returns leaves the call blocked in _verify_servers.
SeedCheck ==
    /\ pc = "SeedCheck"
    /\ known_servers' = _get_known_servers
    /\ \E blocks \in MayBlock(_get_known_servers) :
          IF blocks
          THEN /\ pc' = "Blocked"
               /\ UNCHANGED <<servers, checked_seeds, seed_servers>>
          ELSE /\ servers' = servers \o _verify_servers(_get_known_servers)
               /\ checked_seeds' = _get_known_servers
               /\ seed_servers' = _verify_servers(_get_known_servers)
               /\ pc' = IF SkipNetworkScan(fast_mode, servers') THEN "FastExit" ELSE "PlanScan"
    /\ UNCHANGED <<env, max_threads, fast_mode, ip_list, live_hosts, returned,
                   scanned_servers, enumerated, scan_probes, raised, component_vars>>

\* Fast mode found enough servers: the network scan is skipped
FastExit ==
    /\ pc = "FastExit"
    /\ pc' = "Deduplicating"
    /\ UNCHANGED <<env, max_threads, locals, observed, component_vars>>

\* A return hands back its value and drops the frame's locals
Return(value) ==
    /\ pc' = "Done"
    /\ returned' = value
    /\ known_servers' = <<>>
    /\ servers' = <<>>
    /\ ip_list' = <<>>
    /\ live_hosts' = <<>>

\* ip_list = self._get_scan_ips(); an empty list returns servers as they are
PlanScan ==
    /\ pc = "PlanScan"
    /\ enumerated' = TRUE
    /\ LET scan_ips == _get_scan_ips
       IN  IF scan_ips = <<>>
           THEN Return(servers)
           ELSE /\ ip_list' = scan_ips
                /\ pc' = "Scanning"
                /\ UNCHANGED <<known_servers, servers, live_hosts, returned>>
    /\ UNCHANGED <<env, max_threads, fast_mode, checked_seeds, seed_servers, scanned_servers, scan_probes,
                   raised, component_vars>>

\* live_hosts = self._scan_ports(ip_list): every address is submitted to the pool
\* and the results are collected in completion order.  A pool that cannot be
\* created raises out of _scan_ports into the except clause, which returns [].
ScanPorts ==
    /\ pc = "Scanning"
    /\ IF PoolCreationRaises(max_threads)
       THEN /\ Return(<<>>)
            /\ raised' = TRUE
            /\ UNCHANGED scan_probes
       ELSE /\ LET live == LiveInSubmissionOrder(ip_list)
                IN  \E order \in Orderings(1..Len(live)) :
                        live_hosts' = [i \in 1..Len(order) |-> live[order[i]]]
            /\ scan_probes' = Len(ip_list)
            /\ pc' = "Verifying"
            /\ UNCHANGED <<known_servers, servers, ip_list, returned, raised>>
    /\ UNCHANGED <<env, max_threads, fast_mode, checked_seeds, seed_servers, scanned_servers, enumerated,
                   component_vars>>

\* executor.submit cannot start a worker thread (RuntimeError): the exception
\* leaves _scan_ports and the except clause returns []
ScanPortsThreadError ==
    /\ pc = "Scanning"
    /\ ~PoolCreationRaises(max_threads)
    /\ Return(<<>>)
    /\ raised' = TRUE
    /\ UNCHANGED <<env, max_threads, fast_mode, checked_seeds, seed_servers, scanned_servers, enumerated,
                   scan_probes, component_vars>>

\* scanned_servers = self._verify_servers(live_hosts); servers.extend(scanned_servers)
\* A handshake that never returns leaves the call blocked in _verify_servers.
VerifyScanned ==
    /\ pc = "Verifying"
    /\ \E blocks \in MayBlock(live_hosts) :
          IF blocks
          THEN /\ pc' = "Blocked"
               /\ UNCHANGED <<servers, scanned_servers>>
          ELSE /\ scanned_servers' = _verify_servers(live_hosts)
               /\ servers' = servers \o _verify_servers(live_hosts)
               /\ pc' = "Deduplicating"
    /\ UNCHANGED <<env, max_threads, fast_mode, known_servers, ip_list, live_hosts, returned,
                   checked_seeds, seed_servers, enumerated, scan_probes, raised, component_vars>>

\* The de-duplication loop and return unique_servers
Deduplicate ==
    /\ pc = "Deduplicating"
    /\ Return(UniqueServers(servers))
    /\ UNCHANGED <<env, max_threads, fast_mode, observed, component_vars>>

Next ==
    \/ \E n \in MaxThreadsChoices : SetScanConfig(n)
    \/ \E fm \in BOOLEAN : Start(fm)
    \/ SeedCheck
    \/ FastExit
    \/ PlanScan
    \/ ScanPorts
    \/ ScanPortsThreadError
    \/ VerifyScanned
    \/ Deduplicate

Spec == Init /\ [][Next]_vars

TypeOK ==
    /\ pc \in {"Idle", "SeedCheck", "FastExit", "PlanScan", "Scanning", "Verifying",
               "Deduplicating", "Done", "Blocked"}
    /\ fast_mode \in BOOLEAN
    /\ raised \in BOOLEAN

(***************************************************************************)
(* The classifier on its own: classify_segment applied to a segment drawn  *)
(* from SegmentInputs, no discovery call running                            *)
(***************************************************************************)
FirstOctets == {0, 8, 10, 100, 127, 169, 172, 192, 224, 239, 255}
SecondOctets == {0, 15, 16, 17, 30, 31, 32, 63, 64, 127, 128, 168, 254, 255}
ThirdOctets == {0, 1, 99, 100, 200, 201, 255}

SegmentInputs == {<<a, b, c>> : a \in FirstOctets, b \in SecondOctets, c \in ThirdOctets}

InitClassify ==
    /\ providers = <<>>
    /\ adapters = <<>>
    /\ os_raises = FALSE
    /\ segment_order = <<>>
    /\ host_status = [h \in HostUniverse |-> "down"]
    /\ max_threads = DefaultMaxThreads
    /\ pc = "Idle"
    /\ fast_mode = TRUE
    /\ known_servers = <<>>
    /\ servers = <<>>
    /\ ip_list = <<>>
    /\ live_hosts = <<>>
    /\ returned = <<>>
    /\ checked_seeds = <<>>
    /\ seed_servers = <<>>
    /\ scanned_servers = <<>>
    /\ enumerated = FALSE
    /\ scan_probes = 0
    /\ raised = FALSE
    /\ seg \in SegmentInputs
    /\ cls = NoClassification
    /\ PlannerAtRest
    /\ ProbeAtRest
    /\ StdoutAtRest

\* classification = self.classifier.classify_segment(segment)
Classify ==
    /\ cls = NoClassification
    /\ cls' = classify_segment(seg)
    /\ UNCHANGED <<env, max_threads, pc, locals, observed, seg, planner_vars, probe_vars,
                 stdout_vars>>

NextClassify == Classify

SpecClassify == InitClassify /\ [][NextClassify]_vars

(***************************************************************************)
(* The classifier on any segment string, malformed ones included           *)
(***************************************************************************)
MalformedSegments ==
    {<<192, 168, 299>>, <<10, 256, 0>>, <<10, 100, 300>>, <<10, 300, 0>>, <<300, 1, 1>>,
     <<172, 16, 256>>, <<192, 168>>, <<192, 168, 99, 5>>, <<192, 168, 99, NonNumeric>>,
     <<10, 100, NonNumeric>>, <<NonNumeric, NonNumeric, NonNumeric>>, <<NonNumeric>>, <<>>}

AnySegmentInputs == SegmentInputs \cup MalformedSegments

InitClassifyAny ==
    /\ DiscoveryAtRest
    /\ seg \in AnySegmentInputs
    /\ cls = NoClassification
    /\ PlannerAtRest
    /\ ProbeAtRest
    /\ StdoutAtRest

SpecClassifyAny == InitClassifyAny /\ [][NextClassify]_vars

(***************************************************************************)
(* The planner on its own: get_scan_strategy applied to a list of segments  *)
(* drawn from PlanSegments, no discovery call running                      *)
(***************************************************************************)
MaxSegments == 3

PlanSegments ==
    {<<192, 168, 1>>, <<10, 0, 99>>, <<172, 17, 0>>, <<100, 64, 1>>, <<169, 254, 3>>,
     <<8, 8, 8>>, <<127, 0, 0>>, <<255, 255, 255>>}

InitPlan ==
    /\ DiscoveryAtRest
    /\ ClassifierAtRest
    /\ plan_input \in SeqsUpTo(PlanSegments, MaxSegments)
    /\ strategy = NoStrategy
    /\ ProbeAtRest
    /\ StdoutAtRest

\* strategy = self.scan_engine.get_scan_strategy(segments)
GetScanStrategy ==
    /\ strategy = NoStrategy
    /\ strategy' = get_scan_strategy(plan_input)
    /\ UNCHANGED <<env, max_threads, pc, locals, observed, classifier_vars, plan_input, probe_vars,
                 stdout_vars>>

NextPlan == GetScanStrategy

SpecPlan == InitPlan /\ [][NextPlan]_vars

(***************************************************************************)
(* The host scanner and the verifier step by step: _scan_ports over an     *)
(* address list drawn from ProbeAddresses, one step per host task, then    *)
(* _verify_servers over the live hosts, one step per host.                 *)
(*   tasks_done     the positions of ip_list whose host task has returned  *)
(*   connects       the (address, port) pairs a TCP connect was made to    *)
(*   unjoined       the (address, port) pairs whose sub-probe thread was   *)
(*                  still running when its host task returned              *)
(*   missed_probes  the pairs among them whose connect then succeeded: the *)
(*                  thread marks the port in the record after the host     *)
(*                  task has read it                                       *)
(*   verify_next    the position of live_hosts the verifier is at          *)
(*   handshakes     the positions of live_hosts the web handshake was made *)
(*                  for, synth_gets those the GET was made for             *)
(*   escaped        an exception left _is_port_open or                     *)
(*                  _verify_index_tts_server                               *)
(***************************************************************************)
MaxScanList == 2

HostC == <<192, 168, 1, 10>>
NetworkAddress == <<192, 168, 1, 0>>
BroadcastAddress == <<192, 168, 1, 255>>

ProbeAddresses == {NetworkAddress, BroadcastAddress, HostA, HostC}

ProbeStatusChoices ==
    {"down", "timeout", "unreachable", "web", "webbad", "webempty", "synth", "synthbad",
     "both", "webbad_synth"}

InitProbe ==
    /\ providers = <<>>
    /\ adapters = <<>>
    /\ os_raises = FALSE
    /\ segment_order = <<>>
    /\ ip_list \in SeqsUpTo(ProbeAddresses, MaxScanList)
    /\ host_status \in [ProbeAddresses -> ProbeStatusChoices]
    /\ host_status[NetworkAddress] \in {"down", "web"}
    /\ host_status[BroadcastAddress] \in {"down", "synth"}
    /\ host_status[HostC] \in {"down", "web"}
    /\ \A h \in ProbeAddresses \ Range(ip_list) : host_status[h] = "down"
    /\ client_installed \in BOOLEAN
    /\ max_threads = DefaultMaxThreads
    /\ pc = "Scanning"
    /\ fast_mode = FALSE
    /\ known_servers = <<>>
    /\ servers = <<>>
    /\ live_hosts = <<>>
    /\ returned = <<>>
    /\ checked_seeds = <<>>
    /\ seed_servers = <<>>
    /\ scanned_servers = <<>>
    /\ enumerated = FALSE
    /\ scan_probes = 0
    /\ raised = FALSE
    /\ ClassifierAtRest
    /\ PlannerAtRest
    /\ tasks_done = {}
    /\ connects = {}
    /\ missed_probes = {}
    /\ verify_next = 0
    /\ handshakes = {}
    /\ synth_gets = {}
    /\ escaped = FALSE
    /\ unjoined = {}
    /\ StdoutAtRest

HasPortSet(record) == record.web_port # NoPort \/ record.synth_port # NoPort

\* The host task of ip_list[i] runs and the collector takes its result (tasks
\* complete in any order).  A network or broadcast address returns None before
\* any socket is made; otherwise both sub-probes connect, and the task reads the
\* record when its joins return, finished or timed out.
CheckHostPorts(i) ==
    /\ pc = "Scanning"
    /\ i \in (1..Len(ip_list)) \ tasks_done
    /\ tasks_done' = tasks_done \cup {i}
    /\ LET ip == ip_list[i]
       IN  IF IsNetworkOrBroadcast(ip)
           THEN UNCHANGED <<live_hosts, connects, missed_probes, escaped, unjoined>>
           ELSE \E late \in SUBSET {WebPort, SynthPort} :
                   /\ connects' = connects \cup {<<ip, WebPort>>, <<ip, SynthPort>>}
                   /\ unjoined' = unjoined \cup {<<ip, port>> : port \in late}
                   /\ missed_probes' = missed_probes \cup
                          {<<ip, port>> : port \in {q \in late : _is_port_open(ip, q)}}
                   /\ escaped' = (\/ escaped
                                  \/ IsPortOpenResult(ip, WebPort) = "raises"
                                  \/ IsPortOpenResult(ip, SynthPort) = "raises")
                   /\ live_hosts' = IF CheckHostPortsJoined(ip, late) # NoHost
                                    THEN Append(live_hosts, CheckHostPortsJoined(ip, late))
                                    ELSE live_hosts
    /\ UNCHANGED <<env, max_threads, pc, fast_mode, known_servers, servers, ip_list, returned,
                   observed, classifier_vars, planner_vars, client_installed, verify_next,
                   handshakes, synth_gets, stdout_vars>>

\* Every task has completed: the pool is left and _scan_ports returns live_hosts;
\* _verify_servers starts on them
ScanPortsReturn ==
    /\ pc = "Scanning"
    /\ tasks_done = 1..Len(ip_list)
    /\ pc' = "Verifying"
    /\ verify_next' = 1
    /\ UNCHANGED <<env, max_threads, locals, observed, classifier_vars, planner_vars,
                   client_installed, tasks_done, connects, missed_probes, handshakes,
                   synth_gets, escaped, unjoined, stdout_vars>>

\* One turn of the loop of _verify_servers: _verify_index_tts_server(host)
VerifyServer ==
    /\ pc = "Verifying"
    /\ verify_next \in 1..Len(live_hosts)
    /\ LET host == live_hosts[verify_next]
       IN  /\ handshakes' = IF HandshakeIssued(host) THEN handshakes \cup {verify_next} ELSE handshakes
           /\ synth_gets' = IF SynthGetIssued(host) THEN synth_gets \cup {verify_next} ELSE synth_gets
           /\ servers' = IF _verify_index_tts_server(host) THEN Append(servers, host) ELSE servers
           /\ escaped' = (escaped \/ VerifyServerResult(host) = "raises")
    /\ verify_next' = verify_next + 1
    /\ UNCHANGED <<env, max_threads, pc, fast_mode, known_servers, ip_list, live_hosts, returned,
                   observed, classifier_vars, planner_vars, client_installed, tasks_done,
                   connects, missed_probes, unjoined, stdout_vars>>

\* return verified_servers
VerifyServersReturn ==
    /\ pc = "Verifying"
    /\ verify_next = Len(live_hosts) + 1
    /\ pc' = "Done"
    /\ returned' = servers
    /\ UNCHANGED <<env, max_threads, fast_mode, known_servers, servers, ip_list, live_hosts,
                   observed, classifier_vars, planner_vars, probe_vars, stdout_vars>>

NextProbe ==
    \/ \E i \in 1..MaxScanList : CheckHostPorts(i)
    \/ ScanPortsReturn
    \/ VerifyServer
    \/ VerifyServersReturn

SpecProbe == InitProbe /\ [][NextProbe]_vars

(***************************************************************************)
(* Discovery among peers that may accept a connection and never answer,    *)
(* and with configured servers that may have no port set                   *)
(***************************************************************************)
PeerStatusChoices == {"down", "web", "synth", "both", "silent"}

PeerAdapterLists == {<<>>, <<[ipv4 |-> <<LocalIps[1]>>]>>}

\* A configured provider whose web_port and synth_port are null
PortlessProvider(addr) ==
    [enabled |-> TRUE, server_address |-> addr, web_port |-> NoPort, synth_port |-> NoPort]

PeerProviderChoices == ProviderChoices \cup {PortlessProvider(HostA)}

InitPeers ==
    /\ providers \in SeqsUpTo(PeerProviderChoices, MaxProviders)
    /\ adapters \in PeerAdapterLists
    /\ os_raises = FALSE
    /\ segment_order \in Orderings({SegmentOf(ip) : ip \in Range(AdapterIps(adapters))})
    /\ host_status \in [HostUniverse -> PeerStatusChoices]
    /\ host_status[Loopback] \in {"down", "web", "silent"}
    /\ host_status[HostB] = "down"
    /\ CallAtRest
    /\ ClassifierAtRest
    /\ PlannerAtRest
    /\ ProbeAtRest
    /\ StdoutAtRest

SpecPeers == InitPeers /\ [][Next]_vars

(***************************************************************************)
(* The same on a machine without network adapter, where the scan list is   *)
(* 127.0.0.1 alone, with the call's own steps taken whenever one is        *)
(* possible: the thread that runs scan_index_tts_servers keeps running     *)
(* unless it waits in a call that does not return.                         *)
(***************************************************************************)
InitLive == InitPeers /\ adapters = <<>>

\* The steps of the thread that runs scan_index_tts_servers
CallStep ==
    \/ SeedCheck
    \/ FastExit
    \/ PlanScan
    \/ ScanPorts
    \/ VerifyScanned
    \/ Deduplicate

SpecLive == InitLive /\ [][Next]_vars /\ WF_vars(CallStep)

(***************************************************************************)
(* sys.stdout under discovery calls running on several threads: each call  *)
(* verifies its hosts one after the other, and _verify_gradio_api swaps    *)
(* sys.stdout for a StringIO around the handshake.  One step per statement *)
(* (the interpreter can switch threads between any two).                   *)
(*   sys_stdout   the process's sys.stdout                                 *)
(*   old_stdout   the local old_stdout of each call's _verify_gradio_api   *)
(*   gradio_pc    where each call is: "Verifying" (in _verify_servers,     *)
(*                between two handshakes), "Saved" (after line 547),       *)
(*                "Redirected" (after 548), "Called" (the handshake has    *)
(*                returned or raised), "Done" (the call has returned)      *)
(*   to_verify    the handshakes each call still has to make               *)
(*   overlapped   two calls have been inside the swap at the same time     *)
(***************************************************************************)
MaxHandshakes == 2

\* The StringIO the call makes for the handshake
Buffer(c, k) == <<"StringIO", c, k>>

InitStdout ==
    /\ DiscoveryAtRest
    /\ ClassifierAtRest
    /\ PlannerAtRest
    /\ ProbeAtRest
    /\ sys_stdout = Console
    /\ old_stdout = [c \in Calls |-> NoStream]
    /\ gradio_pc = [c \in Calls |-> "Verifying"]
    /\ to_verify \in [Calls -> 0..MaxHandshakes]
    /\ overlapped = FALSE

\* What the swap of sys.stdout leaves alone
discovery_vars ==
    <<env, max_threads, pc, locals, observed, classifier_vars, planner_vars, probe_vars>>

InSwap(c) == gradio_pc[c] \in {"Saved", "Redirected", "Called"}

\* old_stdout = sys.stdout
SaveStdout(c) ==
    /\ gradio_pc[c] = "Verifying"
    /\ to_verify[c] > 0
    /\ old_stdout' = [old_stdout EXCEPT ![c] = sys_stdout]
    /\ gradio_pc' = [gradio_pc EXCEPT ![c] = "Saved"]
    /\ overlapped' = (overlapped \/ \E d \in Calls \ {c} : InSwap(d))
    /\ UNCHANGED <<sys_stdout, to_verify>>
    /\ UNCHANGED discovery_vars

\* sys.stdout = io.StringIO()
RedirectStdout(c) ==
    /\ gradio_pc[c] = "Saved"
    /\ sys_stdout' = Buffer(c, to_verify[c])
    /\ gradio_pc' = [gradio_pc EXCEPT ![c] = "Redirected"]
    /\ UNCHANGED <<old_stdout, to_verify, overlapped>>
    /\ UNCHANGED discovery_vars

\* client = Client(url); result = client.predict(...): returns or raises
ClientPredict(c) ==
    /\ gradio_pc[c] = "Redirected"
    /\ gradio_pc' = [gradio_pc EXCEPT ![c] = "Called"]
    /\ UNCHANGED <<sys_stdout, old_stdout, to_verify, overlapped>>
    /\ UNCHANGED discovery_vars

\* finally: sys.stdout = old_stdout; the verifier goes on to its next host
RestoreStdout(c) ==
    /\ gradio_pc[c] = "Called"
    /\ sys_stdout' = old_stdout[c]
    /\ to_verify' = [to_verify EXCEPT ![c] = to_verify[c] - 1]
    /\ gradio_pc' = [gradio_pc EXCEPT ![c] = "Verifying"]
    /\ UNCHANGED <<old_stdout, overlapped>>
    /\ UNCHANGED discovery_vars

\* The call has verified its hosts and returns
CallReturns(c) ==
    /\ gradio_pc[c] = "Verifying"
    /\ to_verify[c] = 0
    /\ gradio_pc' = [gradio_pc EXCEPT ![c] = "Done"]
    /\ UNCHANGED <<sys_stdout, old_stdout, to_verify, overlapped>>
    /\ UNCHANGED discovery_vars

NextStdout ==
    \E c \in Calls :
        \/ SaveStdout(c)
        \/ RedirectStdout(c)
        \/ ClientPredict(c)
        \/ RestoreStdout(c)
        \/ CallReturns(c)

SpecStdout == InitStdout /\ [][NextStdout]_vars

(***************************************************************************)
(* Vocabulary of the properties                                            *)
(***************************************************************************)
Addresses(list) == {list[i].address : i \in 1..Len(list)}

\* The list without every entry whose address occurs at an earlier position
FirstOccurrences(list) ==
    LET kept == SelectSeq([i \in 1..Len(list) |-> <<i, list[i]>>],
                          LAMBDA p : \A j \in 1..(p[1] - 1) : list[j].address # p[2].address)
    IN  [i \in 1..Len(kept) |-> kept[i][2]]

\* The seeds have been verified
SeedsChecked == pc \notin {"Idle", "SeedCheck"}

\* The octet lies in one of the (start, end) pairs, ends included
InRanges(octet, ranges) ==
    \E k \in 1..Len(ranges) : ranges[k][1] <= octet /\ octet <= ranges[k][2]

\* The octets a planned target is to cover
PlannedOctets(target) == IF target.mode = "FULL" THEN 1..254 ELSE (1..10) \cup (200..210)

\* The call returned through its de-duplication loop
ReturnedNormally == pc = "Done" /\ ~raised

(***************************************************************************)
(* C1: the list a discovery call returns never holds two entries with the  *)
(* same address, on whichever path the call returns.                       *)
(***************************************************************************)
C1_NoDuplicateAddress ==
    \A i, j \in 1..Len(returned) : returned[i].address = returned[j].address => i = j

\* Two seeds with one address both verified and the call returned one entry for it
C1_Witness ==
    /\ ReturnedNormally
    /\ \E i, j \in 1..Len(seed_servers) : i # j /\ seed_servers[i].address = seed_servers[j].address
    /\ Len(returned) = 1

(***************************************************************************)
(* C2: the returned list is the verified seeds (seed order) followed by    *)
(* the verified scanned hosts (discovery order), with every entry whose    *)
(* address occurred earlier removed.                                       *)
(***************************************************************************)
C2_FirstOccurrenceWins ==
    pc = "Done" => returned = FirstOccurrences(seed_servers \o scanned_servers)

\* The same, for the calls that return through the de-duplication loop
C2_OnNormalReturn ==
    ReturnedNormally => returned = FirstOccurrences(seed_servers \o scanned_servers)

(***************************************************************************)
(* C3: in fast mode, once seed verification yielded at least 2 servers,    *)
(* the call never enters the scan phase: no adapter enumeration, no        *)
(* scan-phase probe, and what it returns are verified seeds only.          *)
(***************************************************************************)
C3_FastExitSkipsScan ==
    (SeedsChecked /\ fast_mode /\ Len(seed_servers) >= 2) =>
        /\ pc \in {"FastExit", "Deduplicating", "Done"}
        /\ ~enumerated
        /\ scan_probes = 0
        /\ ip_list = <<>>
        /\ pc = "Done" => Range(returned) \subseteq Range(seed_servers)

C3_Witness ==
    /\ pc = "Done"
    /\ fast_mode
    /\ Len(seed_servers) >= 2
    /\ returned # <<>>

(***************************************************************************)
(* C4: fast mode, 127.0.0.1 the only seed, a verifier that accepts         *)
(* 127.0.0.1 and nothing else.                                             *)
(***************************************************************************)
C4_Scenario ==
    /\ fast_mode
    /\ checked_seeds = <<Server(Loopback, WebPort, SynthPort)>>
    /\ \A h \in HostUniverse : _verify_index_tts_server(Server(h, WebPort, SynthPort)) <=> h = Loopback

\* C4 as claimed: exactly one server is returned and no scan-phase probe was made
\* (stated for the calls whose worker pool starts)
C4_ZeroScanProbes ==
    (C4_Scenario /\ ReturnedNormally) => Len(returned) = 1 /\ scan_probes = 0

\* C4 amended: one verified seed is below the fast-exit threshold, so the scan
\* phase runs; the call returns exactly the 127.0.0.1 entry after probing, or
\* the empty list when the worker pool fails
C4_ScanRunsWithOneSeed ==
    (C4_Scenario /\ pc = "Done") =>
        /\ enumerated
        /\ IF raised
           THEN returned = <<>>
           ELSE /\ Len(returned) = 1
                /\ returned[1].address = Loopback
                /\ scan_probes > 0

C4_Witness == C4_Scenario /\ ReturnedNormally /\ scan_probes > 0 /\ Len(returned) = 1

(***************************************************************************)
(* C5: the seed list holds 127.0.0.1 and the address of every enabled      *)
(* configured provider, and the seeds have all been verified before the    *)
(* scan phase enumerates an adapter or probes a host.                      *)
(***************************************************************************)
C5_SeedsFirst ==
    (SeedsChecked \/ enumerated \/ scan_probes > 0 \/ ip_list # <<>>) =>
        /\ SeedsChecked
        /\ Loopback \in Addresses(checked_seeds)
        /\ \A i \in 1..Len(providers) :
              (providers[i].enabled /\ providers[i].server_address # NoAddress)
                  => providers[i].server_address \in Addresses(checked_seeds)
        /\ Range(seed_servers) = {s \in Range(checked_seeds) : _verify_index_tts_server(s)}

C5_Witness ==
    /\ scan_probes > 0
    /\ Len(checked_seeds) >= 2
    /\ \E i \in 1..Len(providers) : providers[i].enabled

(***************************************************************************)
(* C6: a failure of the scan phase after the seeds were verified does not  *)
(* discard them: the returned list holds every seed that verified.         *)
(***************************************************************************)
C6_SeedsSurviveScanFailure ==
    pc = "Done" => Addresses(seed_servers) \subseteq Addresses(returned)

(***************************************************************************)
(* C7: when adapter enumeration fails entirely (the query raises or finds  *)
(* no adapter) the returned list holds every seed that verified and only   *)
(* seed addresses.                                                         *)
(***************************************************************************)
C7_SeedsOnlyWithoutAdapters ==
    (pc = "Done" /\ get_network_adapters = <<>>) =>
        /\ Addresses(seed_servers) \subseteq Addresses(returned)
        /\ Addresses(returned) \subseteq Addresses(checked_seeds)

\* The same, for the calls that return through the de-duplication loop
C7_OnNormalReturn ==
    (ReturnedNormally /\ get_network_adapters = <<>>) =>
        /\ Addresses(seed_servers) \subseteq Addresses(returned)
        /\ Addresses(returned) \subseteq Addresses(checked_seeds)

(***************************************************************************)
(* C8: every address handed to the host scanner lies in a segment the      *)
(* planner emitted as a scan target and within that target's ranges (the   *)
(* 127.0.0.1 fallback list of a host without scannable segment set aside). *)
(***************************************************************************)
C8_OnlyPlannedAddresses ==
    (pc = "Scanning" /\ get_primary_network_segment # NoSegment) =>
        \A i \in 1..Len(ip_list) :
            \E t \in Range(get_filtered_network_segments.segments_to_scan) :
                /\ SegmentOf(ip_list[i]) = t.segment
                /\ InRanges(ip_list[i][4], t.scan_range)

(***************************************************************************)
(* C9: once the host scanner has run, every address of every planned scan  *)
(* target was handed to it: octets 1-254 of each Full target, 1-10 and     *)
(* 200-210 of each Fast target.                                            *)
(***************************************************************************)
C9_AllPlannedAddressesProbed ==
    pc = "Verifying" =>
        LET handed == Range(ip_list)
        IN  \A t \in Range(get_filtered_network_segments.segments_to_scan) :
                \A octet \in PlannedOctets(t) : IpOf(t.segment, octet) \in handed

(***************************************************************************)
(* C10: a segment inside 192.168.0.0/16, 10.0.0.0/8 or 172.16.0.0/12 is    *)
(* classified Full, except 172.17.x to 172.30.x, which are classified      *)
(* Skip.                                                                   *)
(***************************************************************************)
IsPrivateSegment(s) ==
    \/ s[1] = 192 /\ s[2] = 168
    \/ s[1] = 10
    \/ s[1] = 172 /\ s[2] \in 16..31

IsContainerSegment(s) == s[1] = 172 /\ s[2] \in 17..30

C10_PrivateRangesFullExceptContainers ==
    (cls # NoClassification /\ IsPrivateSegment(seg)) =>
        cls.scan_mode = IF IsContainerSegment(seg) THEN "SKIP" ELSE "FULL"

\* What the code does: every private segment is Full, the container ranges too
C10_AllPrivateRangesFull ==
    (cls # NoClassification /\ IsPrivateSegment(seg)) => cls.scan_mode = "FULL"

(***************************************************************************)
(* C11: a segment inside the loopback range (127.x.y), the multicast range *)
(* (224.x.y to 239.x.y) or the broadcast range (255.255.255) is classified *)
(* with scan mode Ignore.                                                  *)
(***************************************************************************)
IsLoopbackSegment(s) == s[1] = 127

IsMulticastSegment(s) == s[1] \in 224..239

IsBroadcastSegment(s) == s = <<255, 255, 255>>

C11_SpecialRangesIgnored ==
    (cls # NoClassification
        /\ (IsLoopbackSegment(seg) \/ IsMulticastSegment(seg) \/ IsBroadcastSegment(seg)))
        => cls.scan_mode = "IGNORE"

\* What the code does: loopback and multicast segments are Ignore
C11_LoopbackAndMulticastIgnored ==
    (cls # NoClassification /\ (IsLoopbackSegment(seg) \/ IsMulticastSegment(seg)))
        => cls.scan_mode = "IGNORE"

(***************************************************************************)
(* C12: the planner emits scan targets only with mode Full or Fast: no     *)
(* target has mode Skip or Ignore, and no segment classified Skip or       *)
(* Ignore appears in segments_to_scan or scan_order.                       *)
(***************************************************************************)
Planned == strategy # NoStrategy

C12_OnlyFullOrFastTargets ==
    Planned =>
        /\ \A i \in 1..Len(strategy.segments_to_scan) :
              /\ strategy.segments_to_scan[i].mode \in {"FULL", "FAST"}
              /\ classify_segment(strategy.segments_to_scan[i].segment).scan_mode \notin {"SKIP", "IGNORE"}
        /\ \A i \in 1..Len(strategy.scan_order) :
              classify_segment(strategy.scan_order[i]).scan_mode \notin {"SKIP", "IGNORE"}

\* A list with a Skip segment, an Ignore segment and a scannable one was planned
C12_Witness ==
    /\ Planned
    /\ \E i \in 1..Len(plan_input) : classify_segment(plan_input[i]).scan_mode = "SKIP"
    /\ \E i \in 1..Len(plan_input) : classify_segment(plan_input[i]).scan_mode = "IGNORE"
    /\ Len(strategy.segments_to_scan) = 1
    /\ Len(strategy.segments_to_skip) = 1

(***************************************************************************)
(* C13: every emitted target covers only octets in 1..254: a Full target's *)
(* range is exactly 1-254, a Fast target's ranges are exactly 1-10 and     *)
(* 200-210 (ends inclusive), so no emitted range includes octet 0 or 255.  *)
(***************************************************************************)
C13_RangesWithin1To254 ==
    Planned =>
        \A i \in 1..Len(strategy.segments_to_scan) :
            LET t == strategy.segments_to_scan[i]
            IN  /\ t.mode = "FULL" => t.scan_range = <<<<1, 254>>>>
                /\ t.mode = "FAST" => t.scan_range = <<<<1, 10>>, <<200, 210>>>>
                /\ ~InRanges(0, t.scan_range)
                /\ ~InRanges(255, t.scan_range)

\* What the code does: a Full target's range is (1, 255), a Fast target's
\* ranges are (1, 10) and (200, 210); octet 0 is in no range
C13_RangesAsEmitted ==
    Planned =>
        \A i \in 1..Len(strategy.segments_to_scan) :
            LET t == strategy.segments_to_scan[i]
            IN  /\ t.mode = "FULL" => t.scan_range = <<<<1, 255>>>>
                /\ t.mode = "FAST" => t.scan_range = <<<<1, 10>>, <<200, 210>>>>
                /\ ~InRanges(0, t.scan_range)

(***************************************************************************)
(* C14: the planner's targets are ordered by classification priority,      *)
(* descending: in segments_to_scan and scan_order no target of lower       *)
(* priority precedes one of higher priority, every Full target comes       *)
(* before every Fast target, and targets of equal priority keep their      *)
(* input order.                                                            *)
(***************************************************************************)
PriorityOf(s) == classify_segment(s).priority

\* The segments of the list that have the priority, in the list's order
WithPriority(list, p) == SelectSeq(list, LAMBDA s : PriorityOf(s) = p)

\* The segments of the input that the planner is to emit
Scannable(list) == SelectSeq(list, LAMBDA s : classify_segment(s).scan_mode \in {"FULL", "FAST"})

C14_PriorityDescendingStable ==
    Planned =>
        /\ strategy.scan_order =
              [i \in 1..Len(strategy.segments_to_scan) |-> strategy.segments_to_scan[i].segment]
        /\ \A i, j \in 1..Len(strategy.scan_order) :
              i < j => PriorityOf(strategy.scan_order[i]) >= PriorityOf(strategy.scan_order[j])
        /\ \A i, j \in 1..Len(strategy.segments_to_scan) :
              (strategy.segments_to_scan[i].mode = "FULL" /\ strategy.segments_to_scan[j].mode = "FAST")
                  => i < j
        /\ \A p \in 0..3 :
              WithPriority(strategy.scan_order, p) = WithPriority(Scannable(plan_input), p)

\* A Fast segment given before two Full segments was planned after them
C14_Witness ==
    /\ Planned
    /\ plan_input = <<<<100, 64, 1>>, <<192, 168, 1>>, <<10, 0, 99>>>>
    /\ strategy.scan_order = <<<<192, 168, 1>>, <<10, 0, 99>>, <<100, 64, 1>>>>

(***************************************************************************)
(* C15: whatever address list the host scanner is given, no TCP connect is *)
(* made to an address whose last octet is 0 or 255, even when such an      *)
(* address is in the list.                                                 *)
(***************************************************************************)
C15_NoConnectToNetworkOrBroadcast ==
    \A c \in connects : c[1][4] \notin {0, 255}

\* A list with a network or broadcast address that has an open port, and with
\* another host that was connected to, has been scanned
C15_Witness ==
    /\ pc = "Done"
    /\ \E i \in 1..Len(ip_list) :
          /\ ip_list[i][4] \in {0, 255}
          /\ StatusOf(ip_list[i]) \in WebOpenStatuses \cup SynthOpenStatuses
    /\ connects # {}

(***************************************************************************)
(* C16: the host scanner returns exactly the candidate addresses for which *)
(* a port probe succeeded: every record has a port marked open, a port is  *)
(* marked only if its probe succeeded, no host with a successful probe is  *)
(* missing, and hosts with both ports closed are absent without an error.  *)
(***************************************************************************)
\* _scan_ports has returned
ScanReturned == pc \in {"Verifying", "Done"}

\* The connect to the address and port was made and returned 0
ProbeSucceeded(ip, port) == <<ip, port>> \in connects /\ ConnectEx(ip, port) = "zero"

ExactlyHostsWithOpenPort ==
    /\ \A k \in 1..Len(live_hosts) :
          /\ HasPortSet(live_hosts[k])
          /\ live_hosts[k].web_port # NoPort => ProbeSucceeded(live_hosts[k].address, WebPort)
          /\ live_hosts[k].synth_port # NoPort => ProbeSucceeded(live_hosts[k].address, SynthPort)
          /\ live_hosts[k].address \in Range(ip_list)
    /\ \A i \in 1..Len(ip_list) :
          (ProbeSucceeded(ip_list[i], WebPort) \/ ProbeSucceeded(ip_list[i], SynthPort))
              <=> ip_list[i] \in Addresses(live_hosts)
    /\ ~escaped

C16_ExactlyLiveHosts == ScanReturned => ExactlyHostsWithOpenPort

\* The same, for the scans in which every sub-probe finished before its join
\* timed out
C16_WhenSubProbesJoinInTime ==
    (ScanReturned /\ missed_probes = {}) => ExactlyHostsWithOpenPort

(***************************************************************************)
(* C17: every server a discovery call returns, seed or scanned, has its    *)
(* web_port or its synth_port set to a port number.                        *)
(***************************************************************************)
C17_SomePortSet ==
    \A i \in 1..Len(returned) : HasPortSet(returned[i])

\* A call with a configured server that has no port returned a seed and a
\* scanned host that has one port only
C17_Witness ==
    /\ ReturnedNormally
    /\ \E i \in 1..Len(providers) :
          /\ providers[i].enabled
          /\ providers[i].web_port = NoPort
          /\ providers[i].synth_port = NoPort
    /\ \E j \in 1..Len(returned) : returned[j] \in Range(seed_servers)
    /\ \E j \in 1..Len(returned) :
          returned[j] \in Range(scanned_servers) /\ returned[j].synth_port = NoPort

(***************************************************************************)
(* C18: no exception leaves the port probe or the service verifier:        *)
(* refused, timed out and unreachable connects, a missing client library   *)
(* and malformed responses each come out as False, and the scan and the    *)
(* verification go on with the remaining hosts.                            *)
(***************************************************************************)
\* The host answers the handshake, or the GET, as the service does
HandshakeOk(ip) == client_installed /\ StatusOf(ip) \in {"web", "both"}

Get200(ip) == StatusOf(ip) \in {"synth", "both", "webbad_synth"}

IsService(host) ==
    \/ host.web_port # NoPort /\ HandshakeOk(host.address)
    \/ host.synth_port # NoPort /\ Get200(host.address)

C18_FailuresResolveToFalse ==
    /\ ~escaped
    /\ \A c \in connects :
          StatusOf(c[1]) \in {"down", "timeout", "unreachable"} => c[1] \notin Addresses(live_hosts)
    /\ ScanReturned => tasks_done = 1..Len(ip_list)
    /\ pc = "Verifying" => servers = SelectSeq(SubSeq(live_hosts, 1, verify_next - 1), IsService)
    /\ pc = "Done" => returned = SelectSeq(live_hosts, IsService)

\* The verifier failed on a host whose response is malformed and then verified
\* the next one
C18_Witness ==
    /\ pc = "Done"
    /\ Len(live_hosts) = 2
    /\ StatusOf(live_hosts[1].address) = "webbad"
    /\ returned = <<live_hosts[2]>>

(***************************************************************************)
(* C19: the synth-port GET is issued only for a host whose web port is not *)
(* open: for a host with the web port open the handshake alone decides,    *)
(* for a host with only the synth port open the GET's status 200 decides.  *)
(***************************************************************************)
\* The positions of live_hosts the verifier has dealt with
VerifiedPositions == IF ScanReturned THEN 1..(verify_next - 1) ELSE {}

C19_SynthGetOnlyWithoutWebPort ==
    \A k \in VerifiedPositions :
        LET host == live_hosts[k]
        IN  /\ k \in synth_gets => host.web_port = NoPort
            /\ host.web_port # NoPort => (host \in Range(servers) <=> HandshakeOk(host.address))
            /\ (host.web_port = NoPort /\ host.synth_port # NoPort)
                  => (host \in Range(servers) <=> Get200(host.address))

\* C19 amended: the GET is issued for every host with the synth port set unless
\* the handshake has succeeded; a host is verified iff the handshake returned a
\* non-empty list or, failing that, the GET returned 200
C19_SynthGetUnlessHandshakeSucceeded ==
    \A k \in VerifiedPositions :
        LET host == live_hosts[k]
        IN  /\ k \in handshakes <=> host.web_port # NoPort
            /\ k \in synth_gets <=>
                  (host.synth_port # NoPort /\ ~(host.web_port # NoPort /\ HandshakeOk(host.address)))
            /\ host \in Range(servers) <=> IsService(host)

\* A host with both ports open failed the handshake, got the GET and was verified
C19_Witness ==
    \E k \in VerifiedPositions :
        /\ live_hosts[k].web_port # NoPort
        /\ live_hosts[k].synth_port # NoPort
        /\ StatusOf(live_hosts[k].address) = "webbad_synth"
        /\ k \in handshakes
        /\ k \in synth_gets
        /\ live_hosts[k] \in Range(servers)

(***************************************************************************)
(* C20: every discovery call eventually returns, also when a peer accepts  *)
(* the connection and then never answers.                                  *)
(***************************************************************************)
C20_EveryCallReturns == (pc = "SeedCheck") ~> (pc = "Done")

\* What the code gives: a call whose peers all answer or refuse returns
C20_ReturnsUnlessPeerSilent ==
    (pc = "SeedCheck" /\ \A h \in HostUniverse : StatusOf(h) # "silent") ~> (pc = "Done")

(***************************************************************************)
(* C21: when the only local segment is 192.168.1, the only open port is    *)
(* 192.168.1.50:7860 and the verifier accepts exactly the hosts whose web  *)
(* port is open, a full-scan call returns exactly one entry: address       *)
(* 192.168.1.50, web port 7860, no synth port.                             *)
(***************************************************************************)
C21_Scenario ==
    /\ ~fast_mode
    /\ get_network_segments = <<<<192, 168, 1>>>>
    /\ \A h \in HostUniverse : StatusOf(h) = IF h = HostA THEN "web" ELSE "down"

LifecycleSteps ==
    {<<"Idle", "SeedCheck">>, <<"SeedCheck", "FastExit">>, <<"SeedCheck", "PlanScan">>,
     <<"PlanScan", "Scanning">>, <<"Scanning", "Verifying">>, <<"Verifying", "Deduplicating">>,
     <<"FastExit", "Deduplicating">>, <<"Deduplicating", "Done">>}

\* A step that changes the call's position is a step of the lifecycle
LifecycleStep ==
    pc' # pc =>
        /\ <<pc, pc'>> \in LifecycleSteps
        /\ pc' = "Verifying" => scan_probes' = Len(ip_list)
        /\ pc' = "Done" => returned' = UniqueServers(servers)

C22_LifecycleOnly == [][LifecycleStep]_vars

\* What the code gives: the lifecycle, and besides it the return of the except
\* clause, from Scanning to Done with the empty list
C22_LifecycleOrExceptReturn ==
    [][LifecycleStep \/ (pc = "Scanning" /\ pc' = "Done" /\ raised' /\ returned' = <<>>)]_vars

(***************************************************************************)
(* C23: when the host task _check_host_ports returns for a host, both of   *)
(* the host's port sub-probes have finished: the record returned (or the   *)
(* decision to drop the host) reflects both probe outcomes, no sub-probe   *)
(* thread outlives its host task, and the record is not modified after it  *)
(* was handed to the collector.                                            *)
(***************************************************************************)
\* The addresses whose host task has returned
TasksReturned == {ip_list[i] : i \in tasks_done}

\* The records and the drops are those of two finished sub-probes
ReflectsBothProbes ==
    /\ \A k \in 1..Len(live_hosts) : live_hosts[k] = _check_host_ports(live_hosts[k].address)
    /\ \A ip \in TasksReturned : _check_host_ports(ip) # NoHost => ip \in Addresses(live_hosts)

\* No sub-probe marks a port in a record the collector already holds
NoWriteAfterReturn ==
    \A m \in missed_probes : m[1] \notin Addresses(live_hosts)

C23_SubProbesFinishedAtReturn ==
    /\ unjoined = {}
    /\ ReflectsBothProbes
    /\ NoWriteAfterReturn

\* What the code gives: so it is for the host tasks whose two joins returned
\* because the sub-probe had finished, not because timeout + 0.5 s had passed
C23_WhenJoinsDoNotTimeOut ==
    unjoined = {} => (ReflectsBothProbes /\ NoWriteAfterReturn)

(***************************************************************************)
(* C24: discovery leaves no process-wide state changed: once every         *)
(* discovery call has finished, calls that ran at the same time on         *)
(* different threads included, sys.stdout is the stream that was installed *)
(* before they started.                                                    *)
(***************************************************************************)
AllCallsDone == \A c \in Calls : gradio_pc[c] = "Done"

C24_StdoutRestored == AllCallsDone => sys_stdout = Console

\* What the code gives: the stream is restored when no two calls were inside
\* the swap at the same time
C24_RestoredWithoutOverlap == (AllCallsDone /\ ~overlapped) => sys_stdout = Console

(***************************************************************************)
(* C25: classify_segment applies its rules in the order Special, High,     *)
(* tunneling heuristic, Medium, Low and returns the first that matches: a  *)
(* segment inside CGNAT 100.64.0.0/10 or APIPA 169.254.0.0/16 gets         *)
(* Medium/Fast, and a segment that matches no rule gets Low/Skip.          *)
(***************************************************************************)
IsZeroNetSegment(s) == s[1] = 0

IsCgnatSegment(s) == s[1] = 100 /\ s[2] \in 64..127

IsApipaSegment(s) == s[1] = 169 /\ s[2] = 254

\* The first rule, in the claimed order, whose range holds the segment: the
\* special ranges the classifier recognises, the private ranges (every
\* tunneling pattern lies inside them), CGNAT and APIPA, then the default
FirstRuleOutcome(s) ==
    IF IsLoopbackSegment(s) \/ IsMulticastSegment(s) \/ IsZeroNetSegment(s)
    THEN Classification("SPECIAL_PRIORITY", 0, "IGNORE", "special")
    ELSE IF IsPrivateSegment(s) THEN Classification("HIGH_PRIORITY", 3, "FULL", "lan")
    ELSE IF IsCgnatSegment(s) \/ IsApipaSegment(s)
         THEN Classification("MEDIUM_PRIORITY", 1, "FAST", "maybe_tunnel")
         ELSE Classification("LOW_PRIORITY", 0, "SKIP", "virtual")

C25_FirstMatchingRule ==
    cls # NoClassification =>
        /\ cls = FirstRuleOutcome(seg)
        /\ (IsCgnatSegment(seg) \/ IsApipaSegment(seg))
              => (cls.category = "MEDIUM_PRIORITY" /\ cls.scan_mode = "FAST")
        /\ (~_is_special_segment(seg) /\ ~_is_high_priority_segment(seg)
              /\ ~_is_tunneling_segment(seg) /\ ~_is_medium_priority_segment(seg))
              => (cls.category = "LOW_PRIORITY" /\ cls.scan_mode = "SKIP")

\* A CGNAT segment was classified Medium/Fast
C25_Witness ==
    /\ seg = <<100, 127, 255>>
    /\ cls = Classification("MEDIUM_PRIORITY", 1, "FAST", "maybe_tunnel")

(***************************************************************************)
(* C26: classify_segment is a total, deterministic function: for every     *)
(* segment string, malformed ones included, it returns one classification, *)
(* the same on every call, whose scan mode is determined by its category   *)
(* (Special/Ignore, High/Full, Medium/Fast, Low/Skip); a malformed segment *)
(* is classified Low/Skip.                                                 *)
(***************************************************************************)
ModeOfCategory ==
    [SPECIAL_PRIORITY |-> "IGNORE", HIGH_PRIORITY |-> "FULL", MEDIUM_PRIORITY |-> "FAST",
     LOW_PRIORITY |-> "SKIP"]

\* The classification is one of the four, and the one another call gives
OneClassification ==
    /\ cls.category \in DOMAIN ModeOfCategory
    /\ cls.scan_mode = ModeOfCategory[cls.category]
    /\ cls = classify_segment(seg)

C26_TotalAndMalformedLow ==
    cls # NoClassification =>
        /\ OneClassification
        /\ ~IsWellFormed(seg) => (cls.category = "LOW_PRIORITY" /\ cls.scan_mode = "SKIP")

\* What the code gives: a malformed segment is Low/Skip unless its text matches
\* a tunneling pattern, and then it is High/Full
C26_MalformedLowUnlessTunnelingPattern ==
    cls # NoClassification =>
        /\ OneClassification
        /\ ~IsWellFormed(seg) =>
              cls = IF _is_tunneling_segment(seg)
                    THEN Classification("HIGH_PRIORITY", 2, "FULL", "tunnel")
                    ELSE Classification("LOW_PRIORITY", 0, "SKIP", "virtual")

(***************************************************************************)
(* C27: a segment that matches a tunneling-tool address pattern (such as   *)
(* 192.168.99, 10.0.100, 192.168.200 or 172.16.201) is classified          *)
(* High/Full with the reason tunneling segment and priority 2, not LAN     *)
(* segment.                                                                *)
(***************************************************************************)
C27_TunnelingPatternGivesTunnelingReason ==
    (cls # NoClassification /\ _is_tunneling_segment(seg)) =>
        cls = Classification("HIGH_PRIORITY", 2, "FULL", "tunnel")

\* What the code gives: a segment of three octets that matches a tunneling
\* pattern is classified as LAN segment with priority 3, and no segment of
\* three octets gets the tunneling reason
C27_TunnelingPatternGivesLanReason ==
    cls # NoClassification =>
        /\ _is_tunneling_segment(seg) => cls = Classification("HIGH_PRIORITY", 3, "FULL", "lan")
        /\ cls.reason # "tunnel"

(***************************************************************************)
(* C28: the address list _get_scan_ips builds is never empty: when there   *)
(* is no scannable segment (no adapter, a failed enumeration, only Skip or *)
(* Ignore segments) the list is exactly 127.0.0.1, so the early return of  *)
(* the call on an empty scan list is never taken.                          *)
(***************************************************************************)
\* The scan list has been built and the call has not returned
ScanListBuilt == pc \in {"Scanning", "Verifying", "Deduplicating"} /\ enumerated

\* The planner found no segment to scan
NoScannableSegment == get_filtered_network_segments.segments_to_scan = <<>>

C28_ScanListNeverEmpty ==
    /\ ScanListBuilt => ip_list # <<>>
    /\ (ScanListBuilt /\ NoScannableSegment) => ip_list = <<Loopback>>
    /\ (pc = "Done" /\ enumerated /\ ~raised) => scan_probes > 0

\* A machine whose only adapter is in a segment to skip scanned 127.0.0.1 alone
C28_Witness ==
    /\ pc = "Done"
    /\ adapters = <<[ipv4 |-> <<<<8, 8, 8, 8>>>>]>>
    /\ ~os_raises
    /\ NoScannableSegment
    /\ scan_probes = 1

(***************************************************************************)
(* C29: fast mode skips the network scan only if seed verification gave at *)
(* least 2 servers with distinct addresses: one address that verified      *)
(* twice does not suppress the scan, so whenever fast mode skips the scan  *)
(* the returned list has at least 2 entries.                               *)
(***************************************************************************)
\* The call went, or has gone, the way that skips the scan
ScanSkipped == pc \in {"FastExit", "Deduplicating", "Done"} /\ ~enumerated

C29_SkipNeedsTwoDistinctAddresses ==
    ScanSkipped =>
        /\ fast_mode
        /\ Cardinality(Addresses(seed_servers)) >= 2
        /\ pc = "Done" => Len(returned) >= 2

\* What the code gives: the scan is skipped from two verified seeds on, counted
\* before de-duplication, and the returned list has at least one entry
C29_SkipCountsDuplicates ==
    ScanSkipped =>
        /\ fast_mode
        /\ Len(seed_servers) >= 2
        /\ pc = "Done" => Len(returned) >= 1

(***************************************************************************)
(* C30: for every segment S and every set of local adapter addresses, the  *)
(* list _scan_segment_with_strategy(S) builds holds each of S.1 to S.255   *)
(* exactly once and no address of another segment, so the complete scan    *)
(* list of a call holds no address twice.                                  *)
(***************************************************************************)
\* The scan list was built from a primary segment
PrimaryScanned == pc = "Scanning" /\ get_primary_network_segment # NoSegment

\* Each of S.1 to S.255 is at exactly one position of the list
EachOctetOnce(list, S) ==
    LET inS == SelectSeq(list, LAMBDA ip : SegmentOf(ip) = S)
    IN  Len(inS) = 255 /\ Range(inS) = {IpOf(S, i) : i \in 1..255}

C30_PrimaryListWithinSegment ==
    PrimaryScanned =>
        LET S == get_primary_network_segment
            primary_ips == _scan_segment_with_strategy(S)
        IN  /\ primary_ips = SubSeq(ip_list, 1, Len(primary_ips))
            /\ EachOctetOnce(primary_ips, S)
            /\ Range(primary_ips) = {IpOf(S, i) : i \in 1..255}
            /\ Cardinality(Range(ip_list)) = Len(ip_list)

\* What the code gives: each of S.1 to S.255 exactly once, after the local
\* addresses whose text starts with the text of S
C30_EachOctetOfSegmentOnce ==
    PrimaryScanned =>
        LET S == get_primary_network_segment
            primary_ips == _scan_segment_with_strategy(S)
        IN  /\ primary_ips = SubSeq(ip_list, 1, Len(primary_ips))
            /\ EachOctetOnce(primary_ips, S)
            /\ \A ip \in Range(primary_ips) : StartsWith(ip, S)

=============================================================================
